---- MODULE Spec2Model ----
\* raii_flock: FileLock, a wrapper over a std::fs::File that takes an advisory
\* lock (fs2::FileExt) when it is created and calls FileExt::unlock when it is
\* dropped.  The model follows src/src/lib.rs.  Several independently opened
\* handles to ONE file are used by several threads; the advisory-lock table of
\* the operating system is part of the state.
EXTENDS Integers, Sequences, FiniteSets

\* ---------------------------------------------------------------- bounds
NumHandles == 3        \* independently opened handles (File values) to the file
MaxEvents == 1         \* events outside the wrapper's own code, in all: lock
                       \* calls that fail with an I/O error, unlock calls from
                       \* Drop::drop that fail, unlock calls made through an
                       \* inner file, panics

MaxLen == 3            \* longest file, and farthest cursor, of the I/O part
MaxBuf == 2            \* longest buffer passed to read and write

Handles == 1 .. NumHandles
Threads == {"main", "other"}

\* The thread that owns handle h (and every wrapper made from it): the even
\* handles belong to a second thread.
ThreadOf(h) == IF h % 2 = 1 THEN "main" ELSE "other"

Modes  == {"shared", "exclusive"}
Errors == {"WouldBlock", "IoError"}
Ctors  == {"try_wrap_shared", "wrap_shared", "try_wrap_exclusive", "wrap_exclusive"}

VARIABLES
    owner,      \* owner[h]: who owns File h: "caller", "ctor" (moved into a
                \* constructor that is suspended in its lock call), "FileLock"
                \* (field 0 of a live wrapper), "closed" (the File was dropped)
    ctor,       \* ctor[h]: the constructor File h was passed to, or "none"
    osRet,      \* osRet[h]: what the FileExt lock call on h returned, or "none"
    result,     \* result[h]: what the constructor returned: "none", "Ok", an error
    lockTable,  \* lockTable[h]: the advisory lock handle h holds on the file
    unlocks,    \* unlocks[h]: calls of FileExt::unlock on h, by caller of the
                \* call: .drop (from Drop::drop), .inner (through the inner file)
    relocks,    \* relocks[h]: FileExt lock calls made on the inner file of the
                \* wrapper over h after its construction
    stderr,     \* handles whose unlock error was printed by eprintln!
    dropCtx,    \* dropCtx[h]: "none", or the state of the owning thread when
                \* the wrapper over h was dropped: "run" or "unwinding"
    events,     \* number of events counted against MaxEvents so far
    thr,        \* thr[t]: "run", "blocked" (suspended in a blocking lock
                \* call), "unwinding" (a panic is in flight)
    inner,      \* the File in field 0 of the wrapper over IoHandle: the bytes
                \* of the file it is open on and its cursor
    direct,     \* a File not wrapped, on which every I/O call made through
                \* the wrapper is made directly as well
    ioRet,      \* the last I/O call and what it returned: .w through the
                \* wrapper, .d directly
    guard       \* guard[h]: the wrapper of the borrowing variant over a
                \* reference to File h: "none", "pending" (its blocking
                \* constructor is suspended), "live", "released"

ioVars == <<inner, direct, ioRet>>

\* ------------------------------------------------------ std::fs::File I/O
Bytes == {0, 1}
SeqsUpTo(n) == UNION {[1 .. k -> Bytes] : k \in 0 .. n}

\* An open File: the bytes of the file and the cursor of the handle.
Files == [data : SeqsUpTo(MaxLen), pos : 0 .. MaxLen]

\* io::Result of an I/O call: Ok(n) with the bytes a read put in the buffer,
\* or Err(kind).
Ok(n, bytes) == [err |-> "none", n |-> n, bytes |-> bytes]
Err(kind) == [err |-> kind, n |-> 0, bytes |-> <<>>]

vars == <<owner, ctor, osRet, result, lockTable, unlocks, relocks, stderr,
          dropCtx, events, thr, ioVars, guard>>

TypeOK ==
    /\ owner \in [Handles -> {"caller", "ctor", "FileLock", "closed"}]
    /\ ctor \in [Handles -> Ctors \cup {"none"}]
    /\ osRet \in [Handles -> {"none", "Ok"} \cup Errors]
    /\ result \in [Handles -> {"none", "Ok"} \cup Errors]
    /\ lockTable \in [Handles -> Modes \cup {"none"}]
    /\ unlocks \in [Handles -> [drop : 0 .. 1, inner : 0 .. MaxEvents]]
    /\ relocks \in [Handles -> 0 .. MaxEvents]
    /\ stderr \subseteq Handles
    /\ dropCtx \in [Handles -> {"none", "run", "unwinding"}]
    /\ events \in 0 .. MaxEvents
    /\ thr \in [Threads -> {"run", "blocked", "unwinding"}]
    /\ guard \in [Handles -> {"none", "pending", "live", "released"}]
    /\ inner \in Files
    /\ direct \in Files
    /\ ioRet.op \in {"none", "write", "flush", "read", "seek"}

\* Every File is open, unlocked and owned by its caller; no wrapper exists.
InitLocks ==
    /\ owner = [h \in Handles |-> "caller"]
    /\ ctor = [h \in Handles |-> "none"]
    /\ osRet = [h \in Handles |-> "none"]
    /\ result = [h \in Handles |-> "none"]
    /\ lockTable = [h \in Handles |-> "none"]
    /\ unlocks = [h \in Handles |-> [drop |-> 0, inner |-> 0]]
    /\ relocks = [h \in Handles |-> 0]
    /\ stderr = {}
    /\ dropCtx = [h \in Handles |-> "none"]
    /\ events = 0
    /\ thr = [t \in Threads |-> "run"]
    /\ guard = [h \in Handles |-> "none"]

\* No I/O call was made yet.
NoCall == [op |-> "none", len |-> 0, w |-> Ok(0, <<>>), d |-> Ok(0, <<>>)]

\* The locking part of the model makes no I/O call: there the file is empty
\* from beginning to end.
Init ==
    /\ InitLocks
    /\ inner = [data |-> <<>>, pos |-> 0]
    /\ direct = inner
    /\ ioRet = NoCall

\* ------------------------------------------------- the advisory lock calls
\* The rule of the advisory-lock facility behind fs2::FileExt: a shared lock
\* is refused only by an exclusive lock of another handle, an exclusive lock by
\* any lock of another handle.
Compatible(h, mode) ==
    \A g \in Handles \ {h} :
        /\ lockTable[g] # "exclusive"
        /\ mode = "exclusive" => lockTable[g] = "none"

\* FileExt::try_lock_shared / try_lock_exclusive on h: returns at once.  fault:
\* the call fails for a reason other than contention (locking unsupported,
\* permission denied, invalid handle).
try_lock(h, mode, fault) ==
    IF fault THEN "IoError"
    ELSE IF Compatible(h, mode) THEN "Ok"
    ELSE "WouldBlock"

\* FileExt::lock_shared / lock_exclusive on h: "wait" stands for the calling
\* thread being suspended until the lock can be granted.
lock(h, mode, fault) ==
    IF fault THEN "IoError"
    ELSE IF Compatible(h, mode) THEN "Ok"
    ELSE "wait"

\* A live wrapper exists over h / the wrapper over h was dropped.
Live(h) == owner[h] = "FileLock"
Dropped(h) == owner[h] = "closed" /\ result[h] = "Ok"
Pending(h) == owner[h] = "ctor"
ModeOf(c) == IF c \in {"try_wrap_shared", "wrap_shared"} THEN "shared" ELSE "exclusive"

\* Mutant: a failed constructor hands the File back instead of dropping it.
Wrap_KeepsFile(h, name, r) ==
    /\ owner[h] = "caller"
    /\ thr[ThreadOf(h)] = "run"
    /\ ctor' = [ctor EXCEPT ![h] = name]
    /\ IF r = "wait"
       THEN /\ owner' = [owner EXCEPT ![h] = "ctor"]
            /\ thr' = [thr EXCEPT ![ThreadOf(h)] = "blocked"]
            /\ UNCHANGED <<osRet, result, lockTable>>
       ELSE /\ osRet' = [osRet EXCEPT ![h] = r]
            /\ result' = [result EXCEPT ![h] = r]
            /\ owner' = [owner EXCEPT ![h] = IF r = "Ok" THEN "FileLock" ELSE "caller"]
            /\ lockTable' = [lockTable EXCEPT ![h] = IF r = "Ok" THEN ModeOf(name) ELSE "none"]
            /\ UNCHANGED thr
    /\ events' = IF r = "IoError" THEN events + 1 ELSE events
    /\ UNCHANGED <<unlocks, relocks, ioVars, guard, stderr, dropCtx>>

\* Mutant: `let w = Self(f); w.0.<lock call>()?; Ok(w)`: the wrapper is made
\* before the lock call, so on an error it is dropped and unlock is called.
Wrap_WrapsFirst(h, name, r) ==
    /\ owner[h] = "caller"
    /\ thr[ThreadOf(h)] = "run"
    /\ ctor' = [ctor EXCEPT ![h] = name]
    /\ IF r = "wait"
       THEN /\ owner' = [owner EXCEPT ![h] = "ctor"]
            /\ thr' = [thr EXCEPT ![ThreadOf(h)] = "blocked"]
            /\ UNCHANGED <<osRet, result, lockTable, unlocks>>
       ELSE /\ osRet' = [osRet EXCEPT ![h] = r]
            /\ result' = [result EXCEPT ![h] = r]
            /\ owner' = [owner EXCEPT ![h] = IF r = "Ok" THEN "FileLock" ELSE "closed"]
            /\ lockTable' = [lockTable EXCEPT ![h] = IF r = "Ok" THEN ModeOf(name) ELSE "none"]
            /\ unlocks' = IF r = "Ok" THEN unlocks
                          ELSE [unlocks EXCEPT ![h].drop = @ + 1]
            /\ UNCHANGED thr
    /\ events' = IF r = "IoError" THEN events + 1 ELSE events
    /\ UNCHANGED <<relocks, ioVars, guard, stderr, dropCtx>>

\* The body shared by the four constructors: `f.<lock call>()?; Ok(Self(f))`.
\* r is what the lock call returned.  On an error `?` returns it and f, a
\* local of the constructor, is dropped: the File is closed.
Wrap(h, name, r) ==
    /\ owner[h] = "caller"
    /\ thr[ThreadOf(h)] = "run"
    /\ ctor' = [ctor EXCEPT ![h] = name]
    /\ IF r = "wait"
       THEN /\ owner' = [owner EXCEPT ![h] = "ctor"]
            /\ thr' = [thr EXCEPT ![ThreadOf(h)] = "blocked"]
            /\ UNCHANGED <<osRet, result, lockTable>>
       ELSE /\ osRet' = [osRet EXCEPT ![h] = r]
            /\ result' = [result EXCEPT ![h] = r]
            /\ owner' = [owner EXCEPT ![h] = IF r = "Ok" THEN "FileLock" ELSE "closed"]
            /\ lockTable' = [lockTable EXCEPT ![h] = IF r = "Ok" THEN ModeOf(name) ELSE "none"]
            /\ UNCHANGED thr
    /\ events' = IF r = "IoError" THEN events + 1 ELSE events
    /\ UNCHANGED <<unlocks, relocks, ioVars, guard, stderr, dropCtx>>

\* The outcomes of one lock call that the event budget still allows.
Faults == IF events < MaxEvents THEN BOOLEAN ELSE {FALSE}

\* Mutant: `let _ = f.try_lock_shared(); Ok(Self(f))`, the error is swallowed.
TryWrapShared_IgnoresError(h) ==
    \E fault \in Faults :
        LET r == try_lock(h, "shared", fault) IN
        /\ owner[h] = "caller"
        /\ thr[ThreadOf(h)] = "run"
        /\ ctor' = [ctor EXCEPT ![h] = "try_wrap_shared"]
        /\ osRet' = [osRet EXCEPT ![h] = r]
        /\ result' = [result EXCEPT ![h] = "Ok"]
        /\ owner' = [owner EXCEPT ![h] = "FileLock"]
        /\ lockTable' = [lockTable EXCEPT ![h] = IF r = "Ok" THEN "shared" ELSE "none"]
        /\ events' = IF r = "IoError" THEN events + 1 ELSE events
        /\ UNCHANGED <<unlocks, relocks, ioVars, guard, stderr, dropCtx, thr>>

\* Mutant: try_wrap_shared calls try_lock_exclusive (a copy of its sibling).
TryWrapShared_LocksExclusive(h) ==
    \E fault \in Faults :
        LET r == try_lock(h, "exclusive", fault) IN
        /\ owner[h] = "caller"
        /\ thr[ThreadOf(h)] = "run"
        /\ ctor' = [ctor EXCEPT ![h] = "try_wrap_shared"]
        /\ osRet' = [osRet EXCEPT ![h] = r]
        /\ result' = [result EXCEPT ![h] = r]
        /\ owner' = [owner EXCEPT ![h] = IF r = "Ok" THEN "FileLock" ELSE "closed"]
        /\ lockTable' = [lockTable EXCEPT ![h] = IF r = "Ok" THEN "exclusive" ELSE "none"]
        /\ events' = IF r = "IoError" THEN events + 1 ELSE events
        /\ UNCHANGED <<unlocks, relocks, ioVars, guard, stderr, dropCtx, thr>>

\* Mutant: try_wrap_shared calls the blocking lock_shared.
TryWrapShared_Blocks(h) ==
    \E fault \in Faults : Wrap(h, "try_wrap_shared", lock(h, "shared", fault))

TryWrapShared(h) ==
    \E fault \in Faults : Wrap(h, "try_wrap_shared", try_lock(h, "shared", fault))

\* Mutant: wrap_shared asks for the exclusive lock.
WrapShared_LocksExclusive(h) ==
    \E fault \in Faults :
        LET r == lock(h, "exclusive", fault) IN
        /\ owner[h] = "caller"
        /\ thr[ThreadOf(h)] = "run"
        /\ ctor' = [ctor EXCEPT ![h] = "wrap_shared"]
        /\ IF r = "wait"
           THEN /\ owner' = [owner EXCEPT ![h] = "ctor"]
                /\ thr' = [thr EXCEPT ![ThreadOf(h)] = "blocked"]
                /\ UNCHANGED <<osRet, result, lockTable>>
           ELSE /\ osRet' = [osRet EXCEPT ![h] = r]
                /\ result' = [result EXCEPT ![h] = r]
                /\ owner' = [owner EXCEPT ![h] = IF r = "Ok" THEN "FileLock" ELSE "closed"]
                /\ lockTable' = [lockTable EXCEPT ![h] = IF r = "Ok" THEN "exclusive" ELSE "none"]
                /\ UNCHANGED thr
        /\ events' = IF r = "IoError" THEN events + 1 ELSE events
        /\ UNCHANGED <<unlocks, relocks, ioVars, guard, stderr, dropCtx>>

WrapShared(h) ==
    \E fault \in Faults : Wrap(h, "wrap_shared", lock(h, "shared", fault))

\* Mutant: try_wrap_exclusive calls try_lock_shared (a copy of its sibling).
TryWrapExclusive_LocksShared(h) ==
    \E fault \in Faults :
        LET r == try_lock(h, "shared", fault) IN
        /\ owner[h] = "caller"
        /\ thr[ThreadOf(h)] = "run"
        /\ ctor' = [ctor EXCEPT ![h] = "try_wrap_exclusive"]
        /\ osRet' = [osRet EXCEPT ![h] = r]
        /\ result' = [result EXCEPT ![h] = r]
        /\ owner' = [owner EXCEPT ![h] = IF r = "Ok" THEN "FileLock" ELSE "closed"]
        /\ lockTable' = [lockTable EXCEPT ![h] = IF r = "Ok" THEN "shared" ELSE "none"]
        /\ events' = IF r = "IoError" THEN events + 1 ELSE events
        /\ UNCHANGED <<unlocks, relocks, ioVars, guard, stderr, dropCtx, thr>>

\* Mutant: try_wrap_exclusive replaces the error of the lock call by one of its
\* own (map_err) before returning it.
TryWrapExclusive_MapsError(h) ==
    \E fault \in Faults :
        LET r == try_lock(h, "exclusive", fault) IN
        /\ owner[h] = "caller"
        /\ thr[ThreadOf(h)] = "run"
        /\ ctor' = [ctor EXCEPT ![h] = "try_wrap_exclusive"]
        /\ osRet' = [osRet EXCEPT ![h] = r]
        /\ result' = [result EXCEPT ![h] = IF r = "Ok" THEN "Ok" ELSE "IoError"]
        /\ owner' = [owner EXCEPT ![h] = IF r = "Ok" THEN "FileLock" ELSE "closed"]
        /\ lockTable' = [lockTable EXCEPT ![h] = IF r = "Ok" THEN "exclusive" ELSE "none"]
        /\ events' = IF r = "IoError" THEN events + 1 ELSE events
        /\ UNCHANGED <<unlocks, relocks, ioVars, guard, stderr, dropCtx, thr>>

TryWrapExclusive(h) ==
    \E fault \in Faults : Wrap(h, "try_wrap_exclusive", try_lock(h, "exclusive", fault))

\* Mutant: wrap_exclusive calls try_lock_exclusive (a copy of its sibling).
WrapExclusive_Tries(h) ==
    \E fault \in Faults : Wrap(h, "wrap_exclusive", try_lock(h, "exclusive", fault))

\* Mutant: `let _ = f.lock_exclusive(); Ok(Self(f))`, the error is swallowed.
WrapExclusive_IgnoresError(h) ==
    \E fault \in Faults :
        LET r == lock(h, "exclusive", fault) IN
        /\ owner[h] = "caller"
        /\ thr[ThreadOf(h)] = "run"
        /\ ctor' = [ctor EXCEPT ![h] = "wrap_exclusive"]
        /\ IF r = "wait"
           THEN /\ owner' = [owner EXCEPT ![h] = "ctor"]
                /\ thr' = [thr EXCEPT ![ThreadOf(h)] = "blocked"]
                /\ UNCHANGED <<osRet, result, lockTable>>
           ELSE /\ osRet' = [osRet EXCEPT ![h] = r]
                /\ result' = [result EXCEPT ![h] = "Ok"]
                /\ owner' = [owner EXCEPT ![h] = "FileLock"]
                /\ lockTable' = [lockTable EXCEPT ![h] = IF r = "Ok" THEN "exclusive" ELSE "none"]
                /\ UNCHANGED thr
        /\ events' = IF r = "IoError" THEN events + 1 ELSE events
        /\ UNCHANGED <<unlocks, relocks, ioVars, guard, stderr, dropCtx>>

\* Mutant: wrap_exclusive calls lock_shared (a copy of its sibling).
WrapExclusive_LocksShared(h) ==
    \E fault \in Faults :
        LET r == lock(h, "shared", fault) IN
        /\ owner[h] = "caller"
        /\ thr[ThreadOf(h)] = "run"
        /\ ctor' = [ctor EXCEPT ![h] = "wrap_exclusive"]
        /\ IF r = "wait"
           THEN /\ owner' = [owner EXCEPT ![h] = "ctor"]
                /\ thr' = [thr EXCEPT ![ThreadOf(h)] = "blocked"]
                /\ UNCHANGED <<osRet, result, lockTable>>
           ELSE /\ osRet' = [osRet EXCEPT ![h] = r]
                /\ result' = [result EXCEPT ![h] = r]
                /\ owner' = [owner EXCEPT ![h] = IF r = "Ok" THEN "FileLock" ELSE "closed"]
                /\ lockTable' = [lockTable EXCEPT ![h] = IF r = "Ok" THEN "shared" ELSE "none"]
                /\ UNCHANGED thr
        /\ events' = IF r = "IoError" THEN events + 1 ELSE events
        /\ UNCHANGED <<unlocks, relocks, ioVars, guard, stderr, dropCtx>>

WrapExclusive(h) ==
    \E fault \in Faults : Wrap(h, "wrap_exclusive", lock(h, "exclusive", fault))

\* Mutant: the lock facility keeps its locks per process: the locks the
\* calling thread holds through other handles do not stand in the way.
Grant_IgnoresOwnLocks(h) ==
    /\ owner[h] = "ctor"
    /\ \A g \in Handles \ {h} :
          ThreadOf(g) # ThreadOf(h)
          => /\ lockTable[g] # "exclusive"
             /\ ModeOf(ctor[h]) = "exclusive" => lockTable[g] = "none"
    /\ osRet' = [osRet EXCEPT ![h] = "Ok"]
    /\ result' = [result EXCEPT ![h] = "Ok"]
    /\ owner' = [owner EXCEPT ![h] = "FileLock"]
    /\ lockTable' = [lockTable EXCEPT ![h] = ModeOf(ctor[h])]
    /\ thr' = [thr EXCEPT ![ThreadOf(h)] = "run"]
    /\ UNCHANGED <<ctor, unlocks, relocks, ioVars, guard, stderr, dropCtx, events>>

\* The operating system grants the lock a suspended lock_shared/lock_exclusive
\* call waits for; the call returns Ok and the constructor returns Ok(Self(f)).
Grant(h) ==
    /\ owner[h] = "ctor"
    /\ Compatible(h, ModeOf(ctor[h]))
    /\ osRet' = [osRet EXCEPT ![h] = "Ok"]
    /\ result' = [result EXCEPT ![h] = "Ok"]
    /\ owner' = [owner EXCEPT ![h] = "FileLock"]
    /\ lockTable' = [lockTable EXCEPT ![h] = ModeOf(ctor[h])]
    /\ thr' = [thr EXCEPT ![ThreadOf(h)] = "run"]
    /\ UNCHANGED <<ctor, unlocks, relocks, ioVars, guard, stderr, dropCtx, events>>

\* Mutant: an empty drop over a File that is never closed (leaked): no unlock
\* call, and the lock stays in the lock table.
Drop_LeaksLock(h) ==
    /\ owner[h] = "FileLock"
    /\ thr[ThreadOf(h)] \in {"run", "unwinding"}
    /\ owner' = [owner EXCEPT ![h] = "closed"]
    /\ dropCtx' = [dropCtx EXCEPT ![h] = thr[ThreadOf(h)]]
    /\ UNCHANGED <<ctor, osRet, result, lockTable, unlocks, relocks, ioVars, guard, stderr, events, thr>>

\* Mutant: drop leaves the release to the closing of the File and never calls
\* unlock.
Drop_NoUnlock(h) ==
    /\ owner[h] = "FileLock"
    /\ thr[ThreadOf(h)] \in {"run", "unwinding"}
    /\ lockTable' = [lockTable EXCEPT ![h] = "none"]
    /\ owner' = [owner EXCEPT ![h] = "closed"]
    /\ dropCtx' = [dropCtx EXCEPT ![h] = thr[ThreadOf(h)]]
    /\ UNCHANGED <<ctor, osRet, result, unlocks, relocks, ioVars, guard, stderr, events, thr>>

\* Mutant: drop unwraps the result of unlock: an unlock error panics, and a
\* panic raised while another one unwinds aborts.
Drop_PanicsOnError(h) ==
    /\ owner[h] = "FileLock"
    /\ thr[ThreadOf(h)] \in {"run", "unwinding"}
    /\ \E err \in BOOLEAN :
        /\ err => events < MaxEvents
        /\ events' = IF err THEN events + 1 ELSE events
        /\ thr' = IF ~err THEN thr
                  ELSE [thr EXCEPT ![ThreadOf(h)] =
                           IF @ = "run" THEN "unwinding" ELSE "aborted"]
    /\ unlocks' = [unlocks EXCEPT ![h].drop = @ + 1]
    /\ UNCHANGED <<relocks, ioVars, guard>>
    /\ lockTable' = [lockTable EXCEPT ![h] = "none"]
    /\ owner' = [owner EXCEPT ![h] = "closed"]
    /\ dropCtx' = [dropCtx EXCEPT ![h] = thr[ThreadOf(h)]]
    /\ UNCHANGED <<ctor, osRet, result, stderr>>

\* Mutant: drop does nothing while the thread is panicking
\* (`if !thread::panicking() { unlock }`); the File is closed all the same.
Drop_SkipsWhenPanicking(h) ==
    /\ owner[h] = "FileLock"
    /\ thr[ThreadOf(h)] \in {"run", "unwinding"}
    /\ \E err \in BOOLEAN :
        /\ err => events < MaxEvents /\ thr[ThreadOf(h)] = "run"
        /\ stderr' = IF err THEN stderr \cup {h} ELSE stderr
        /\ events' = IF err THEN events + 1 ELSE events
    /\ unlocks' = IF thr[ThreadOf(h)] = "run"
                  THEN [unlocks EXCEPT ![h].drop = @ + 1] ELSE unlocks
    /\ UNCHANGED <<relocks, ioVars, guard>>
    /\ lockTable' = [lockTable EXCEPT ![h] = "none"]
    /\ owner' = [owner EXCEPT ![h] = "closed"]
    /\ dropCtx' = [dropCtx EXCEPT ![h] = thr[ThreadOf(h)]]
    /\ UNCHANGED <<ctor, osRet, result, thr>>

\* Mutant: the unlock of one handle releases the locks of all handles, as a
\* lock facility that keeps its locks per process would.
Drop_ReleasesAll(h) ==
    /\ owner[h] = "FileLock"
    /\ thr[ThreadOf(h)] \in {"run", "unwinding"}
    /\ \E err \in BOOLEAN :
        /\ err => events < MaxEvents
        /\ stderr' = IF err THEN stderr \cup {h} ELSE stderr
        /\ events' = IF err THEN events + 1 ELSE events
    /\ unlocks' = [unlocks EXCEPT ![h].drop = @ + 1]
    /\ lockTable' = [g \in Handles |-> "none"]
    /\ owner' = [owner EXCEPT ![h] = "closed"]
    /\ dropCtx' = [dropCtx EXCEPT ![h] = thr[ThreadOf(h)]]
    /\ UNCHANGED <<ctor, osRet, result, thr, relocks, ioVars, guard>>

\* Drop::drop of the wrapper over h, at scope end or while unwinding: one call
\* of unlock, whose error is printed.  Then field 0, the File, is dropped: the
\* handle is closed, which releases whatever lock it still holds.
Drop(h) ==
    /\ owner[h] = "FileLock"
    /\ thr[ThreadOf(h)] \in {"run", "unwinding"}
    /\ \E err \in BOOLEAN :
        /\ err => events < MaxEvents
        /\ stderr' = IF err THEN stderr \cup {h} ELSE stderr
        /\ events' = IF err THEN events + 1 ELSE events
    /\ unlocks' = [unlocks EXCEPT ![h].drop = @ + 1]
    /\ UNCHANGED <<relocks, ioVars, guard>>
    /\ lockTable' = [lockTable EXCEPT ![h] = "none"]
    /\ owner' = [owner EXCEPT ![h] = "closed"]
    /\ dropCtx' = [dropCtx EXCEPT ![h] = thr[ThreadOf(h)]]
    /\ UNCHANGED <<ctor, osRet, result, thr>>

\* The caller reaches the inner File (public field 0, Deref, DerefMut) and
\* calls FileExt::unlock on it; the call may fail and leave the lock held.
InnerUnlock(h) ==
    /\ owner[h] = "FileLock"
    /\ thr[ThreadOf(h)] = "run"
    /\ events < MaxEvents
    /\ unlocks' = [unlocks EXCEPT ![h].inner = @ + 1]
    /\ UNCHANGED <<relocks, ioVars, guard>>
    /\ events' = events + 1
    /\ \E err \in BOOLEAN :
        lockTable' = IF err THEN lockTable ELSE [lockTable EXCEPT ![h] = "none"]
    /\ UNCHANGED <<owner, ctor, osRet, result, stderr, dropCtx, thr>>

\* The caller reaches the inner File the same way and calls a non-blocking
\* FileExt lock call on it. Granted, the call replaces the lock of the
\* handle by one of the mode asked for. Refused, it returns WouldBlock; the
\* facility converts a lock by removing it and taking the new one, so whether
\* the handle still holds its former lock then depends on the platform.
InnerTryLock(h, mode) ==
    /\ owner[h] = "FileLock"
    /\ thr[ThreadOf(h)] = "run"
    /\ events < MaxEvents
    /\ relocks' = [relocks EXCEPT ![h] = @ + 1]
    /\ events' = events + 1
    /\ IF Compatible(h, mode)
       THEN lockTable' = [lockTable EXCEPT ![h] = mode]
       ELSE \E kept \in BOOLEAN :
                lockTable' = IF kept THEN lockTable
                             ELSE [lockTable EXCEPT ![h] = "none"]
    /\ UNCHANGED <<owner, ctor, osRet, result, unlocks, stderr, dropCtx, thr,
                   ioVars, guard>>

\* Code of thread t outside the wrapper panics: its wrappers are dropped while
\* the panic unwinds.
Panic(t) ==
    /\ thr[t] = "run"
    /\ events < MaxEvents
    /\ thr' = [thr EXCEPT ![t] = "unwinding"]
    /\ events' = events + 1
    /\ UNCHANGED <<owner, ctor, osRet, result, lockTable, unlocks, relocks, ioVars, guard,
                   stderr, dropCtx>>

Next ==
    \/ \E h \in Handles : TryWrapShared(h)
    \/ \E h \in Handles : WrapShared(h)
    \/ \E h \in Handles : TryWrapExclusive(h)
    \/ \E h \in Handles : WrapExclusive(h)
    \/ \E h \in Handles : Grant(h)
    \/ \E h \in Handles : Drop(h)
    \/ \E h \in Handles : InnerUnlock(h)
    \/ \E h \in Handles : \E mode \in Modes : InnerTryLock(h, mode)
    \/ \E t \in Threads : Panic(t)

Spec == Init /\ [][Next]_vars

\* A lock call suspended in the operating system is woken up when the lock it
\* waits for stays available.
FairSpec == Spec /\ \A h \in Handles : WF_vars(Grant(h))

\* ------------------------------------------------ I/O through the wrapper
Min(a, b) == IF a < b THEN a ELSE b
Max(a, b) == IF a > b THEN a ELSE b

\* The bytes of a file after `bytes` were written at offset pos: bytes past
\* the end extend the file, a gap left by a cursor past the end reads as 0.
Overwrite(data, pos, bytes) ==
    IF bytes = <<>> THEN data
    ELSE [i \in 1 .. Max(Len(data), pos + Len(bytes)) |->
            IF i > pos /\ i <= pos + Len(bytes) THEN bytes[i - pos]
            ELSE IF i <= Len(data) THEN data[i]
            ELSE 0]

\* File::write(buf): the operating system takes the first n bytes of buf (a
\* partial write when n < Len(buf)) or, fail, returns an error and writes
\* nothing.
File_write(f, buf, n, fail) ==
    IF fail THEN [file |-> f, res |-> Err("IoError")]
    ELSE [file |-> [data |-> Overwrite(f.data, f.pos, SubSeq(buf, 1, n)),
                    pos |-> f.pos + n],
          res |-> Ok(n, <<>>)]

\* File::flush(): a File has no buffer of its own; nothing to do.
File_flush(f) == [file |-> f, res |-> Ok(0, <<>>)]

\* Bytes between the cursor and the end of the file.
Avail(f) == IF f.pos < Len(f.data) THEN Len(f.data) - f.pos ELSE 0

\* File::read(buf) with a buffer of len bytes: the operating system hands over
\* n bytes from the cursor on, or fails.
File_read(f, len, n, fail) ==
    IF fail THEN [file |-> f, res |-> Err("IoError")]
    ELSE [file |-> [f EXCEPT !.pos = @ + n],
          res |-> Ok(n, SubSeq(f.data, f.pos + 1, f.pos + n))]

\* The offset SeekFrom::Start(off) / Current(off) / End(off) names.
SeekTarget(f, from, off) ==
    CASE from = "Start" -> off
      [] from = "Current" -> f.pos + off
      [] from = "End" -> Len(f.data) + off

\* File::seek(pos): an offset before the start of the file is an error.
File_seek(f, from, off) ==
    IF SeekTarget(f, from, off) < 0
    THEN [file |-> f, res |-> Err("InvalidInput")]
    ELSE [file |-> [f EXCEPT !.pos = SeekTarget(f, from, off)],
          res |-> Ok(SeekTarget(f, from, off), <<>>)]

\* Mutant: write keeps writing until the whole buffer is out (write_all).
FileLock_write_All(self0, buf, n, fail) == File_write(self0, buf, Len(buf), fail)

\* impl Write for FileLock: `self.0.write(buf)`, `self.0.flush()`.
FileLock_write(self0, buf, n, fail) == File_write(self0, buf, n, fail)
FileLock_flush(self0) == File_flush(self0)

\* impl Write for &FileLock: `(&self.0).write(buf)`, `(&self.0).flush()`.
FileLockRef_write(self0, buf, n, fail) == File_write(self0, buf, n, fail)
FileLockRef_flush(self0) == File_flush(self0)

\* impl Read for FileLock and for &FileLock.
FileLock_read(self0, len, n, fail) == File_read(self0, len, n, fail)
FileLockRef_read(self0, len, n, fail) == File_read(self0, len, n, fail)

\* impl Seek for FileLock and for &FileLock.
FileLock_seek(self0, from, off) == File_seek(self0, from, off)
FileLockRef_seek(self0, from, off) == File_seek(self0, from, off)

\* The File whose wrapper the I/O calls go through, and the two receivers the
\* I/O traits are implemented for.
IoHandle == 1
Receivers == {"FileLock", "&FileLock"}

lockVars == <<owner, ctor, osRet, result, lockTable, unlocks, relocks, stderr,
              dropCtx, events, thr>>

\* The caller can make an I/O call through the wrapper.
CanCall == Live(IoHandle) /\ thr[ThreadOf(IoHandle)] = "run"

\* The step of an I/O call: w is what the wrapper's method made of its inner
\* File, d what the same File method made of the File not wrapped.
IoStep(op, len, w, d) ==
    /\ inner' = w.file
    /\ direct' = d.file
    /\ ioRet' = [op |-> op, len |-> len, w |-> w.res, d |-> d.res]
    /\ UNCHANGED <<lockVars, guard>>

\* write(buf) through the wrapper and directly, the operating system taking
\* n bytes in both.
Write(via, buf) ==
    /\ CanCall
    /\ inner.pos + Len(buf) <= MaxLen /\ direct.pos + Len(buf) <= MaxLen
    /\ \E fail \in BOOLEAN : \E n \in 0 .. Len(buf) :
        /\ n = 0 <=> buf = <<>>
        /\ IoStep("write", Len(buf),
                  IF via = "FileLock" THEN FileLock_write(inner, buf, n, fail)
                  ELSE FileLockRef_write(inner, buf, n, fail),
                  File_write(direct, buf, n, fail))

Flush(via) ==
    /\ CanCall
    /\ IoStep("flush", 0,
              IF via = "FileLock" THEN FileLock_flush(inner)
              ELSE FileLockRef_flush(inner),
              File_flush(direct))

\* read(buf) with a buffer of len bytes: at the end of the file 0 bytes, else
\* at least one and no more than there are.
Read(via, len) ==
    /\ CanCall
    /\ \E fail \in BOOLEAN : \E n \in 0 .. len :
        /\ n <= Avail(inner) /\ n <= Avail(direct)
        /\ n = 0 <=> Min(len, Avail(direct)) = 0
        /\ IoStep("read", len,
                  IF via = "FileLock" THEN FileLock_read(inner, len, n, fail)
                  ELSE FileLockRef_read(inner, len, n, fail),
                  File_read(direct, len, n, fail))

Seek(via, from, off) ==
    /\ CanCall
    /\ from = "Start" => off >= 0
    /\ SeekTarget(inner, from, off) <= MaxLen
    /\ SeekTarget(direct, from, off) <= MaxLen
    /\ IoStep("seek", 0,
              IF via = "FileLock" THEN FileLock_seek(inner, from, off)
              ELSE FileLockRef_seek(inner, from, off),
              File_seek(direct, from, off))

\* The file holds some bytes when it is opened; both Files start at offset 0.
IoInit ==
    /\ InitLocks
    /\ \E d \in SeqsUpTo(MaxLen) : inner = [data |-> d, pos |-> 0]
    /\ direct = inner
    /\ ioRet = NoCall

\* One File is wrapped, used for I/O through the wrapper and dropped.
IoNext ==
    \/ TryWrapExclusive(IoHandle)
    \/ \E via \in Receivers : \E buf \in SeqsUpTo(MaxBuf) : Write(via, buf)
    \/ \E via \in Receivers : Flush(via)
    \/ \E via \in Receivers : \E len \in 0 .. MaxBuf : Read(via, len)
    \/ \E via \in Receivers : \E from \in {"Start", "Current", "End"} :
         \E off \in -MaxLen .. MaxLen : Seek(via, from, off)
    \/ Drop(IoHandle)

IoSpec == IoInit /\ [][IoNext]_vars

\* ------------------------------------------------- the borrowing variant
\* The wrapper over a reference to a File the caller keeps: same four
\* constructors, same lock calls; the File is never moved, so a failed call
\* leaves it open with the caller.
BorrowWrap(h, name, r) ==
    /\ owner[h] = "caller"
    /\ guard[h] = "none"
    /\ thr[ThreadOf(h)] = "run"
    /\ ctor' = [ctor EXCEPT ![h] = name]
    /\ IF r = "wait"
       THEN /\ guard' = [guard EXCEPT ![h] = "pending"]
            /\ thr' = [thr EXCEPT ![ThreadOf(h)] = "blocked"]
            /\ UNCHANGED <<osRet, result, lockTable>>
       ELSE /\ osRet' = [osRet EXCEPT ![h] = r]
            /\ result' = [result EXCEPT ![h] = r]
            /\ guard' = [guard EXCEPT ![h] = IF r = "Ok" THEN "live" ELSE "none"]
            /\ lockTable' = [lockTable EXCEPT ![h] = IF r = "Ok" THEN ModeOf(name) ELSE "none"]
            /\ UNCHANGED thr
    /\ events' = IF r = "IoError" THEN events + 1 ELSE events
    /\ UNCHANGED <<owner, unlocks, relocks, stderr, dropCtx, ioVars>>

\* The two non-blocking constructors of the borrowing variant.
BorrowTryWrap(h) ==
    \E name \in {"try_wrap_shared", "try_wrap_exclusive"} : \E fault \in Faults :
        BorrowWrap(h, name, try_lock(h, ModeOf(name), fault))

\* The two blocking constructors of the borrowing variant.
BorrowWrapBlocking(h) ==
    \E name \in {"wrap_shared", "wrap_exclusive"} : \E fault \in Faults :
        BorrowWrap(h, name, lock(h, ModeOf(name), fault))

\* The suspended lock call of a blocking constructor returns with the lock.
BorrowGrant(h) ==
    /\ guard[h] = "pending"
    /\ Compatible(h, ModeOf(ctor[h]))
    /\ osRet' = [osRet EXCEPT ![h] = "Ok"]
    /\ result' = [result EXCEPT ![h] = "Ok"]
    /\ guard' = [guard EXCEPT ![h] = "live"]
    /\ lockTable' = [lockTable EXCEPT ![h] = ModeOf(ctor[h])]
    /\ thr' = [thr EXCEPT ![ThreadOf(h)] = "run"]
    /\ UNCHANGED <<owner, ctor, unlocks, relocks, stderr, dropCtx, events, ioVars>>

\* Mutant: the destructor of the owning variant, which only ever prints.
BorrowDrop_OnlyLogs(h) ==
    /\ guard[h] = "live"
    /\ thr[ThreadOf(h)] \in {"run", "unwinding"}
    /\ unlocks' = [unlocks EXCEPT ![h].drop = @ + 1]
    /\ guard' = [guard EXCEPT ![h] = "released"]
    /\ dropCtx' = [dropCtx EXCEPT ![h] = thr[ThreadOf(h)]]
    /\ \E err \in BOOLEAN :
        /\ lockTable' = IF err THEN lockTable ELSE [lockTable EXCEPT ![h] = "none"]
        /\ stderr' = IF err THEN stderr \cup {h} ELSE stderr
    /\ UNCHANGED <<owner, ctor, osRet, result, relocks, events, thr, ioVars>>

\* Destruction of the borrowing wrapper: unlock is called on the referenced
\* File, which stays open with the caller.  A failed unlock leaves the lock
\* held; it is printed when the thread is already unwinding and raised as a
\* fatal error, which starts unwinding the thread, when it is not.
BorrowDrop(h) ==
    /\ guard[h] = "live"
    /\ thr[ThreadOf(h)] \in {"run", "unwinding"}
    /\ unlocks' = [unlocks EXCEPT ![h].drop = @ + 1]
    /\ guard' = [guard EXCEPT ![h] = "released"]
    /\ dropCtx' = [dropCtx EXCEPT ![h] = thr[ThreadOf(h)]]
    /\ \E err \in BOOLEAN :
        /\ lockTable' = IF err THEN lockTable ELSE [lockTable EXCEPT ![h] = "none"]
        /\ stderr' = IF err /\ thr[ThreadOf(h)] = "unwinding"
                     THEN stderr \cup {h} ELSE stderr
        /\ thr' = IF err /\ thr[ThreadOf(h)] = "run"
                  THEN [thr EXCEPT ![ThreadOf(h)] = "unwinding"] ELSE thr
    /\ UNCHANGED <<owner, ctor, osRet, result, relocks, events, ioVars>>

BorrowNext ==
    \/ \E h \in Handles : BorrowTryWrap(h)
    \/ \E h \in Handles : BorrowWrapBlocking(h)
    \/ \E h \in Handles : BorrowGrant(h)
    \/ \E h \in Handles : BorrowDrop(h)
    \/ \E t \in Threads : Panic(t)

BorrowSpec == Init /\ [][BorrowNext]_vars

\* ------------------------------------------------------------- the claims
TryCtors == {"try_wrap_shared", "try_wrap_exclusive"}
BlockingCtors == {"wrap_shared", "wrap_exclusive"}

\* This step is a call of a non-blocking constructor on File h.
TryCall(h) == owner[h] = "caller" /\ ctor'[h] \in TryCtors

\* C1: while the wrapper over a holds an exclusive lock, a call of
\* try_wrap_shared or try_wrap_exclusive on another handle b creates no
\* wrapper, takes no lock and returns an error, which is the contention error
\* WouldBlock unless the lock call itself returned an I/O error.
C1_MutualExclusion ==
    [][\A a \in Handles : \A b \in Handles \ {a} :
          (Live(a) /\ lockTable[a] = "exclusive" /\ TryCall(b))
          => /\ owner'[b] = "closed"
             /\ lockTable'[b] = "none"
             /\ result'[b] \in Errors
             /\ osRet'[b] # "IoError" => result'[b] = "WouldBlock"]_vars

\* a holds an exclusive lock, b was refused with WouldBlock by a non-blocking
\* constructor, and no other handle was ever used: a is what refused b.
C1_Witness ==
    \E a \in Handles : \E b \in Handles \ {a} :
        /\ Live(a) /\ lockTable[a] = "exclusive"
        /\ ctor[b] \in TryCtors /\ result[b] = "WouldBlock" /\ owner[b] = "closed"
        /\ \A c \in Handles \ {a, b} : owner[c] = "caller"


\* C2: a dropped wrapper leaves no lock behind: once every wrapper over the
\* other handles is dropped (at least one was), a call of try_wrap_shared or
\* try_wrap_exclusive on handle b is not refused with WouldBlock, and unless the
\* lock call returns an I/O error it returns a wrapper holding the lock asked for.
C2_ReleaseOnScopeEnd ==
    /\ [](\A a \in Handles : Dropped(a) => lockTable[a] = "none")
    /\ [][\A b \in Handles :
            (/\ TryCall(b)
             /\ \E a \in Handles \ {b} : Dropped(a)
             /\ \A c \in Handles \ {b} : ~Live(c) /\ ~Pending(c))
            => /\ result'[b] # "WouldBlock"
               /\ osRet'[b] # "IoError"
                  => /\ result'[b] = "Ok"
                     /\ owner'[b] = "FileLock"
                     /\ lockTable'[b] = ModeOf(ctor'[b])]_vars

\* The scenario: a held the exclusive lock and was dropped; try_wrap_shared on
\* b1 was refused with WouldBlock; try_wrap_shared on b2 succeeded and b2 has
\* held its shared lock ever since (so a was dropped before b2 was wrapped).
C2_Witness ==
    \E a \in Handles : \E b1 \in Handles \ {a} : \E b2 \in Handles \ {a, b1} :
        /\ Dropped(a) /\ ModeOf(ctor[a]) = "exclusive" /\ unlocks[a].inner = 0
        /\ ctor[b1] = "try_wrap_shared" /\ result[b1] = "WouldBlock"
        /\ ctor[b2] = "try_wrap_shared" /\ Live(b2)
        /\ lockTable[b2] = "shared" /\ unlocks[b2].inner = 0

C4_SingleUnlock ==
    \A h \in Handles :
        /\ Live(h) => unlocks[h].drop + unlocks[h].inner = 0
        /\ Dropped(h) => unlocks[h].drop + unlocks[h].inner = 1

\* C4, amended: Drop::drop calls unlock exactly once, at destruction, and
\* nothing else in the wrapper calls it: no call from drop before the wrapper
\* is dropped, one after; unlock is never called through an inner file that is
\* not inside a constructed wrapper.  Calls the caller makes itself through
\* the exposed inner File come on top of that one call.
C4_DropUnlocksOnce ==
    \A h \in Handles :
        /\ unlocks[h].drop = IF Dropped(h) THEN 1 ELSE 0
        /\ unlocks[h].inner > 0 => result[h] = "Ok"

\* A dropped wrapper on whose File unlock was called twice: once by the caller
\* through the inner File, once by Drop::drop.
C4_Witness ==
    \E h \in Handles : Dropped(h) /\ unlocks[h].drop = 1 /\ unlocks[h].inner = 1

\* C5 as claimed: every live wrapper holds the lock its constructor acquired.
C5_LockHeldWhileLive ==
    \A h \in Handles : Live(h) => lockTable[h] = ModeOf(ctor[h])

\* C5, amended: a live wrapper holds the lock its constructor acquired as long
\* as its caller has not reached the inner File (public field, Deref,
\* DerefMut) to call unlock on it.
C5_LockHeldUnlessInnerUnlock ==
    \A h \in Handles :
        (Live(h) /\ unlocks[h].inner = 0 /\ relocks[h] = 0)
        => lockTable[h] = ModeOf(ctor[h])

\* Two live wrappers: one untouched and holding its lock, one whose lock the
\* caller released through the inner File.
C5_Witness ==
    \E g \in Handles : \E h \in Handles \ {g} :
        /\ Live(g) /\ unlocks[g].inner = 0 /\ lockTable[g] = ModeOf(ctor[g])
        /\ Live(h) /\ unlocks[h].inner = 1 /\ lockTable[h] = "none"

\* C6: a step in which a constructor returns an error returns the error of
\* the lock call unchanged, creates no wrapper, leaves the calling handle
\* without a lock, and changes neither the locks nor the owners of the other
\* handles.
C6_FailureLeavesNoTrace ==
    [][\A h \in Handles :
          (result[h] = "none" /\ result'[h] \in Errors)
          => /\ result'[h] = osRet'[h]
             /\ owner'[h] = "closed"
             /\ lockTable'[h] = "none"
             /\ \A g \in Handles \ {h} :
                    lockTable'[g] = lockTable[g] /\ owner'[g] = owner[g]]_vars

\* One constructor failed with WouldBlock, another with an I/O error, and the
\* exclusive lock that refused the first is still held.
C6_Witness ==
    \E a \in Handles : \E g \in Handles \ {a} : \E h \in Handles \ {a, g} :
        /\ Live(a) /\ lockTable[a] = "exclusive"
        /\ result[g] = "WouldBlock" /\ osRet[g] = "WouldBlock" /\ owner[g] = "closed"
        /\ result[h] = "IoError" /\ osRet[h] = "IoError" /\ owner[h] = "closed"

\* This step is a call of a shared-mode constructor on File h.
SharedCall(h) == owner[h] = "caller" /\ ctor'[h] \in {"try_wrap_shared", "wrap_shared"}

\* C7: a call of try_wrap_shared or wrap_shared made while no other handle
\* holds an exclusive lock is neither refused with WouldBlock nor suspended,
\* however many shared locks are held; unless the lock call returns an I/O
\* error the wrapper is created with a shared lock, and the shared locks of the
\* other handles stay.
C7_SharedCompatibility ==
    [][\A h \in Handles :
          (SharedCall(h) /\ \A g \in Handles \ {h} : lockTable[g] # "exclusive")
          => /\ result'[h] # "WouldBlock"
             /\ owner'[h] # "ctor"
             /\ osRet'[h] # "IoError"
                => owner'[h] = "FileLock" /\ lockTable'[h] = "shared"
             /\ \A g \in Handles \ {h} : lockTable'[g] = lockTable[g]]_vars

\* Two live wrappers, made by try_wrap_shared and by wrap_shared, both holding
\* a shared lock.
C7_Witness ==
    \E g \in Handles : \E h \in Handles \ {g} :
        /\ Live(g) /\ ctor[g] = "try_wrap_shared" /\ lockTable[g] = "shared"
        /\ Live(h) /\ ctor[h] = "wrap_shared" /\ lockTable[h] = "shared"

C9_BlockingWaits ==
    /\ [](\A h \in Handles : ctor[h] \in BlockingCtors => result[h] # "WouldBlock")
    /\ [][\A h \in Handles :
            Pending(h)
            => /\ ~Compatible(h, ModeOf(ctor[h]))
                  => Pending(h)' /\ thr'[ThreadOf(h)] = "blocked"
               /\ ~Pending(h)'
                  => /\ result'[h] = "Ok" /\ owner'[h] = "FileLock"
                     /\ lockTable'[h] = ModeOf(ctor[h])
                     /\ thr'[ThreadOf(h)] = "run"]_vars
    /\ \A h \in Handles :
           []<>~(Pending(h) /\ Compatible(h, ModeOf(ctor[h])))

\* A call of wrap_shared or wrap_exclusive is suspended, with its thread, and
\* the exclusive lock it found held has just been released by the drop of its
\* holder: the lock asked for can be granted.
C9_Witness ==
    \E a \in Handles : \E h \in Handles \ {a} :
        /\ Dropped(a) /\ ModeOf(ctor[a]) = "exclusive"
        /\ Pending(h) /\ ctor[h] \in BlockingCtors /\ result[h] = "none"
        /\ thr[ThreadOf(h)] = "blocked"
        /\ Compatible(h, ModeOf(ctor[h]))
        /\ \A c \in Handles \ {a, h} : owner[c] = "caller"

\* C10: a non-blocking constructor never leaves its caller suspended: the step
\* that calls it is the step in which it returns, with a wrapper or an error,
\* and the thread goes on running; WouldBlock is returned only when another
\* handle held an incompatible lock, an I/O error only when the lock call
\* returned one.
C10_TryNeverWaits ==
    [][\A h \in Handles :
          TryCall(h)
          => /\ owner'[h] \in {"FileLock", "closed"}
             /\ result'[h] \in {"Ok"} \cup Errors
             /\ thr'[ThreadOf(h)] = "run"
             /\ result'[h] = "WouldBlock" => ~Compatible(h, ModeOf(ctor'[h]))
             /\ result'[h] = "IoError" <=> osRet'[h] = "IoError"
             /\ result'[h] = "Ok" => Compatible(h, ModeOf(ctor'[h]))]_vars

\* Non-blocking constructors have returned all three results, and no thread
\* is suspended.
C10_Witness ==
    \E f \in Handles : \E g \in Handles \ {f} : \E h \in Handles \ {f, g} :
        /\ ctor[f] \in TryCtors /\ result[f] = "Ok"
        /\ ctor[g] \in TryCtors /\ result[g] = "WouldBlock"
        /\ ctor[h] \in TryCtors /\ result[h] = "IoError"
        /\ \A t \in Threads : thr[t] # "blocked"

\* C11: whichever way the scope of a wrapper ends, at a normal or early
\* return of a running thread or while a panic unwinds, the step that ends the
\* wrapper is Drop::drop: it calls unlock once and leaves the handle without a
\* lock; and that step is there to take whenever the wrapper's thread runs or
\* unwinds, so that no way out of the locked state goes around it.
C11_ReleaseOnEveryExit ==
    /\ [][\A h \in Handles :
            (Live(h) /\ ~Live(h)')
            => /\ dropCtx'[h] = thr[ThreadOf(h)]
               /\ dropCtx'[h] \in {"run", "unwinding"}
               /\ unlocks'[h].drop = unlocks[h].drop + 1
               /\ lockTable'[h] = "none"
               /\ owner'[h] = "closed"]_vars
    /\ [](\A h \in Handles :
            (Live(h) /\ thr[ThreadOf(h)] \in {"run", "unwinding"})
            => ENABLED Drop(h))

\* One wrapper was dropped by a running thread, another while its thread was
\* unwinding; unlock was called for both and neither handle holds a lock.
C11_Witness ==
    \E g \in Handles : \E h \in Handles \ {g} :
        /\ Dropped(g) /\ dropCtx[g] = "run" /\ unlocks[g].drop = 1
        /\ Dropped(h) /\ dropCtx[h] = "unwinding" /\ unlocks[h].drop = 1
        /\ lockTable[g] = "none" /\ lockTable[h] = "none"

\* C12 as stated: whatever lock the handle of a live wrapper holds is of the
\* mode its constructor selected, in every state until the wrapper is
\* destroyed.
C12_ModeFixed ==
    \A h \in Handles :
        (Live(h) /\ lockTable[h] # "none") => lockTable[h] = ModeOf(ctor[h])

\* C12, amended: the lock of a live wrapper is of the mode its constructor
\* selected for as long as no lock call was made on its inner file; the
\* wrapper's own code (constructors, forwarded I/O, Drop) never changes it.
C12_ModeFixedUnlessInnerLock ==
    \A h \in Handles :
        (Live(h) /\ relocks[h] = 0 /\ lockTable[h] # "none")
        => lockTable[h] = ModeOf(ctor[h])

\* A wrapper made by an exclusive constructor whose inner file was locked
\* again holds a shared lock, next to an untouched shared wrapper.
C12_Witness ==
    \E g \in Handles : \E h \in Handles \ {g} :
        /\ Live(h) /\ ModeOf(ctor[h]) = "exclusive" /\ relocks[h] = 1
        /\ lockTable[h] = "shared"
        /\ Live(g) /\ relocks[g] = 0 /\ lockTable[g] = ModeOf(ctor[g])

\* C13: every read, write, flush and seek made through the wrapper, on either
\* receiver, returns what the same call returns on the File itself (the byte
\* count of a partial write, the bytes read, the offset, the error) and leaves
\* the same bytes in the file and the same cursor, up to and after the drop
\* of the wrapper.
C13_IoTransparency ==
    /\ ioRet.w = ioRet.d
    /\ inner = direct

\* A write of two bytes through the live wrapper was cut short by the operating
\* system after one, which is what the wrapper returned; the byte is in the
\* file and the cursor behind it.
C13_Witness ==
    /\ Live(IoHandle)
    /\ ioRet.op = "write" /\ ioRet.len = 2 /\ ioRet.w = Ok(1, <<>>)
    /\ inner.pos = 2 /\ Len(inner.data) = 2

\* C14: a wrapper of the borrowing variant comes out of each of the four
\* constructors with the File still owned by the caller; its destruction
\* calls unlock once and leaves the File open with the caller; an unlock
\* that fails (the lock stays) is raised as a fatal error when the thread was
\* running and only printed when it was already unwinding.
C14_BorrowedFileSurvives ==
    [][\A h \in Handles :
        /\ (guard[h] # "live" /\ guard'[h] = "live")
           => /\ owner'[h] = "caller"
              /\ osRet'[h] = "Ok"
              /\ lockTable'[h] = ModeOf(ctor'[h])
        /\ (guard[h] = "live" /\ guard'[h] # "live")
           => /\ guard'[h] = "released"
              /\ owner'[h] = "caller"
              /\ unlocks'[h].drop = unlocks[h].drop + 1
              /\ lockTable'[h] \in {"none", lockTable[h]}
              /\ IF lockTable'[h] = "none"
                 THEN thr' = thr /\ stderr' = stderr
                 ELSE IF thr[ThreadOf(h)] = "run"
                 THEN thr'[ThreadOf(h)] = "unwinding" /\ stderr' = stderr
                 ELSE thr' = thr /\ stderr' = stderr \cup {h}]_vars

\* Two borrowing wrappers of one thread were destroyed with a failed unlock:
\* the first while the thread ran, which made it unwind with nothing printed,
\* the second during that unwinding, which was printed; both Files are still
\* the caller's, and a third wrapper came out of a blocking constructor.
C14_Witness ==
    \E g \in Handles : \E h \in Handles \ {g} :
        /\ guard[g] = "released" /\ dropCtx[g] = "run"
        /\ lockTable[g] # "none" /\ g \notin stderr
        /\ guard[h] = "released" /\ dropCtx[h] = "unwinding"
        /\ lockTable[h] # "none" /\ h \in stderr
        /\ ThreadOf(g) = ThreadOf(h) /\ thr[ThreadOf(g)] = "unwinding"
        /\ owner[g] = "caller" /\ owner[h] = "caller"
        /\ \E k \in Handles : guard[k] = "live" /\ ctor[k] = "wrap_shared"

C16_DropOrderIrrelevant ==
    /\ [][\A g \in Handles : \A h \in Handles \ {g} :
            (/\ Live(g) /\ lockTable[g] = "shared"
             /\ Live(h) /\ lockTable[h] = "shared"
             /\ ~Live(h)')
            => /\ Live(g)' /\ lockTable'[g] = "shared"
               /\ unlocks'[g] = unlocks[g] /\ dropCtx'[g] = dropCtx[g]
               /\ (g \in stderr') = (g \in stderr)
               /\ thr' = thr
               /\ Dropped(h)' /\ lockTable'[h] = "none"
               /\ unlocks'[h] = [unlocks[h] EXCEPT !.drop = @ + 1]
               /\ dropCtx'[h] = thr[ThreadOf(h)]]_vars
    /\ [](\A g \in Handles : \A h \in Handles \ {g} :
            (Dropped(g) /\ Dropped(h))
            => /\ lockTable[g] = "none" /\ lockTable[h] = "none"
               /\ unlocks[g].drop = 1 /\ unlocks[h].drop = 1)

\* Of two wrappers made by shared constructors one was dropped, the other is
\* live and still holds its shared lock; a third pair was dropped both.
C16_Witness ==
    \E g \in Handles : \E h \in Handles \ {g} : \E k \in Handles \ {g, h} :
        /\ ModeOf(ctor[g]) = "shared" /\ ModeOf(ctor[h]) = "shared"
        /\ ModeOf(ctor[k]) = "shared"
        /\ Live(g) /\ lockTable[g] = "shared"
        /\ Dropped(h) /\ Dropped(k)
        /\ lockTable[h] = "none" /\ lockTable[k] = "none"
        /\ h \notin stderr /\ k \notin stderr

\* A wrapper whose lock nobody touched through its inner File.
Untouched(h) == unlocks[h].inner = 0 /\ relocks[h] = 0

\* C17: in every state, blocking and non-blocking constructors alike: a handle
\* that holds the exclusive lock is the only handle that holds a lock; and a
\* live wrapper that came out of an exclusive constructor has no other live
\* wrapper beside it, as long as the lock of neither was touched through its
\* inner File.
C17_GlobalExclusivity ==
    \A a \in Handles : \A b \in Handles \ {a} :
        /\ (Live(a) /\ lockTable[a] = "exclusive")
           => ~(Live(b) /\ lockTable[b] # "none")
        /\ lockTable[a] = "exclusive" => lockTable[b] = "none"
        /\ (Live(a) /\ ModeOf(ctor[a]) = "exclusive" /\ Untouched(a))
           => ~(Live(b) /\ Untouched(b))

\* A live wrapper from wrap_exclusive holds the exclusive lock after another
\* wrapper was dropped, while a blocking constructor on a third handle waits.
C17_Witness ==
    \E a \in Handles : \E b \in Handles \ {a} : \E c \in Handles \ {a, b} :
        /\ Live(a) /\ ctor[a] = "wrap_exclusive" /\ lockTable[a] = "exclusive"
        /\ Dropped(b)
        /\ Pending(c) /\ lockTable[c] = "none"

SelfDeadlock(a, b) ==
    /\ a # b /\ ThreadOf(a) = ThreadOf(b)
    /\ Live(a) /\ lockTable[a] = "exclusive"
    /\ Pending(b) /\ thr[ThreadOf(b)] = "blocked"

\* C19: a thread that holds a live exclusive wrapper over one handle and calls
\* a blocking constructor on another handle to the same file never comes back
\* from the call: from then on, in every step, the wrapper stays live with its
\* lock, the call stays suspended with no result and the thread stays blocked.
C19_SelfDeadlock ==
    /\ [][\A a \in Handles : \A b \in Handles :
            SelfDeadlock(a, b)
            => SelfDeadlock(a, b)' /\ result'[b] = "none"]_vars
    /\ [](\A a \in Handles : \A b \in Handles :
            SelfDeadlock(a, b)
            => /\ ~ENABLED Grant(b)
               /\ ~ENABLED Drop(a)
               /\ ~ENABLED InnerUnlock(a)
               /\ ~ENABLED Panic(ThreadOf(a)))

\* The thread is in that state, and the wrapper the other thread had was
\* dropped: nothing but the thread's own wrapper stands in the way.
C19_Witness ==
    \E a \in Handles : \E b \in Handles : \E c \in Handles :
        /\ SelfDeadlock(a, b)
        /\ ThreadOf(c) # ThreadOf(a) /\ owner[c] = "closed"
        /\ events = MaxEvents

====
